---- MODULE Spec2Model ----
(***************************************************************************)
(* State-machine model of testing_exercise.py: the in-memory Database,     *)
(* the UserRepository on top of it, the WeatherService, the                *)
(* NotificationService and the OrderProcessor that composes the two.       *)
(*                                                                         *)
(* Python values are modelled as tagged records so that values of          *)
(* different Python types can be compared: None, bool, str, float and the  *)
(* user dict.  E-mail addresses are sequences of one-character strings so  *)
(* that validate_email can inspect them.                                   *)
(***************************************************************************)
EXTENDS Integers, Sequences, FiniteSets, TLC

\* ------------------------------------------------------------------------
\* Bounds and input samples
\* ------------------------------------------------------------------------

\* Number of distinct instants datetime.now() can report.
MaxClock == 2

Timestamps == 1..MaxClock

UserIds == {"1", "2"}

\* The (name, email) pairs callers pass to create_user.  The first two e-mail
\* addresses are valid; the others have no '@', two '@', no '.' in the domain.
People ==
    { <<"Ann", <<"a", "@", "b", ".", "c">> >>,
      <<"Bob", <<"d", "@", "e", ".", "f">> >>,
      <<"Ann", <<"a", "b">> >>,
      <<"Bob", <<"a", "@", "@", "b", ".", "c">> >>,
      <<"Ann", <<"a", "@", "b">> >> }

\* Keys and values used by direct callers of Database.save / Database.get.
\* "user:1" collides with the key UserRepository uses for user id "1".
Keys == {"k1", "user:1"}

\* Arguments callers pass to the WeatherService and the OrderProcessor.
Cities == {"Madrid", "Oslo"}

OrderIds == {"ORD-001", "ORD-002"}

CustomerEmails == {"customer@example.com", "alert@example.com"}

\* WeatherService(api_key=...): the default and the one the tests configure.
ApiKeys == {"demo", "test"}

\* The notification collaborators injected into OrderProcessor: the real
\* NotificationService and the test double whose send_email returns False.
NotificationServices == {"NotificationService", "MockSendEmailFalse"}

\* Temperatures the remote endpoint reports, in degrees Celsius.
Temperatures == {15, 20, 25}

\* HTTP statuses the remote endpoint answers with.
Statuses == {200, 404, 500}

\* What one requests.get call meets: the transport raises, or a response
\* with a status and the JSON body {"temperature": t} arrives.
Replies ==
    {[kind |-> "raise"]} \cup
    [kind : {"response"}, status : Statuses, temperature : Temperatures]

\* Longest e-mail string handed to validate_email on its own.
MaxLen == 4

\* The characters of those strings: an ordinary character, '@' and '.'.
Chars == {"a", "@", "."}

\* All strings over Chars of length n.
StringsOfLen(n) == [1..n -> Chars]

EmailStrings == UNION {StringsOfLen(n) : n \in 0..MaxLen}

\* Arguments of calculate_total_price.  Prices are in cents; -1 stands for
\* the negative prices and quantities.
MaxPrice == 3

Prices == -1..MaxPrice

MaxQuantity == 3

Quantities == -1..MaxQuantity

\* Discount percentages: inside, on the edges of and outside the allowed range.
Discounts == {-1, 0, 1, 25, 50, 99, 100, 101}

\* ------------------------------------------------------------------------
\* Python values
\* ------------------------------------------------------------------------

None == [type |-> "NoneType"]

Bool(b) == [type |-> "bool", value |-> b]

Str(s) == [type |-> "str", value |-> s]

Float(x) == [type |-> "float", value |-> x]

Values == {Str("v1")}

\* Exceptions; NoError stands for normal return.
NoError == "none"
ConnectionError == "ConnectionError"
ValueError == "ValueError"
RequestException == "RequestException"
HTTPError == "HTTPError"

\* Outcome of a call: the exception raised (or NoError) and the value
\* returned, together with the Database state the call leaves behind.
Outcome(e, r, d) == [err |-> e, ret |-> r, db |-> d]

\* ------------------------------------------------------------------------
\* calculate_total_price
\* ------------------------------------------------------------------------

\* The upper limit of discount_percent.
MaxDiscount == 100

\* discount_percent / 100
Percent == 100

CalculateTotalPrice_ExclusiveUpper(price, quantity, discount_percent) ==
    IF price < 0 \/ quantity < 0
    THEN [err |-> ValueError, ret |-> None]
    ELSE IF ~(0 <= discount_percent /\ discount_percent < MaxDiscount)
         THEN [err |-> ValueError, ret |-> None]
         ELSE LET subtotal == price * quantity
                  discount_amount == subtotal * discount_percent
              IN  [err |-> NoError,
                   ret |-> Float(subtotal * Percent - discount_amount)]

\* calculate_total_price in exact arithmetic.  With the price in cents the
\* amounts are kept in 1/Percent of a cent, so that subtotal * (discount / 100)
\* is the integer subtotal * discount and subtotal is subtotal * Percent.
CalculateTotalPrice(price, quantity, discount_percent) ==
    IF price < 0 \/ quantity < 0
    THEN [err |-> ValueError, ret |-> None]
    ELSE IF ~(0 <= discount_percent /\ discount_percent <= MaxDiscount)
         THEN [err |-> ValueError, ret |-> None]
         ELSE LET subtotal == price * quantity
                  discount_amount == subtotal * discount_percent
              IN  [err |-> NoError,
                   ret |-> Float(subtotal * Percent - discount_amount)]

\* ------------------------------------------------------------------------
\* validate_email
\* ------------------------------------------------------------------------

\* str.split('@'): the list of pieces between the separators.
RECURSIVE Split(_, _)
Split(s, sep) ==
    IF \A i \in 1..Len(s) : s[i] # sep
    THEN <<s>>
    ELSE LET i == CHOOSE j \in 1..Len(s) :
                     /\ s[j] = sep
                     /\ \A k \in 1..(j - 1) : s[k] # sep
         IN  <<SubSeq(s, 1, i - 1)>> \o Split(SubSeq(s, i + 1, Len(s)), sep)

\* c in s
Contains(s, c) == \E i \in 1..Len(s) : s[i] = c

validate_email_NoCount(email) ==
    IF email = <<>> \/ ~Contains(email, "@")
    THEN FALSE
    ELSE LET parts == Split(email, "@")
             username == parts[1]
             domain == parts[2]
         IN  IF username = <<>> \/ domain = <<>> \/ ~Contains(domain, ".")
             THEN FALSE
             ELSE TRUE

validate_email(email) ==
    IF email = <<>> \/ ~Contains(email, "@")
    THEN FALSE
    ELSE LET parts == Split(email, "@")
         IN  IF Len(parts) # 2
             THEN FALSE
             ELSE LET username == parts[1]
                      domain == parts[2]
                  IN  IF username = <<>> \/ domain = <<>> \/ ~Contains(domain, ".")
                      THEN FALSE
                      ELSE TRUE

\* ------------------------------------------------------------------------
\* Database: a record [data, connected]; data is a function whose domain is
\* the set of keys present in the dict.
\* ------------------------------------------------------------------------

\* Database.__init__
NewDatabase == [data |-> <<>>, connected |-> FALSE]

DictSet_Replace(d, key, value) == [k \in {key} |-> value]

\* self.data[key] = value
DictSet(d, key, value) ==
    [k \in (DOMAIN d) \cup {key} |-> IF k = key THEN value ELSE d[k]]

\* self.data.get(key)
DictGet(d, key) == IF key \in DOMAIN d THEN d[key] ELSE None

DbDisconnect_Clears(db) == Outcome(NoError, None, [data |-> <<>>, connected |-> FALSE])

DbSave_NoGuard(db, key, value) ==
    Outcome(NoError, Bool(TRUE), [db EXCEPT !.data = DictSet(db.data, key, value)])

DbSave_NoOverwrite(db, key, value) ==
    IF ~db.connected
    THEN Outcome(ConnectionError, None, db)
    ELSE IF key \in DOMAIN db.data
         THEN Outcome(NoError, Bool(TRUE), db)
         ELSE Outcome(NoError, Bool(TRUE),
                      [db EXCEPT !.data = DictSet(db.data, key, value)])

DbConnect(db) == Outcome(NoError, Bool(TRUE), [db EXCEPT !.connected = TRUE])

DbDisconnect(db) == Outcome(NoError, None, [db EXCEPT !.connected = FALSE])

DbSave(db, key, value) ==
    IF ~db.connected
    THEN Outcome(ConnectionError, None, db)
    ELSE Outcome(NoError, Bool(TRUE), [db EXCEPT !.data = DictSet(db.data, key, value)])

DbGet(db, key) ==
    IF ~db.connected
    THEN Outcome(ConnectionError, None, db)
    ELSE Outcome(NoError, DictGet(db.data, key), db)

\* ------------------------------------------------------------------------
\* UserRepository
\* ------------------------------------------------------------------------

UserKey_NoId(user_id) == "user:"

\* f"user:{user_id}"
UserKey(user_id) == "user:" \o user_id

\* The dict built by create_user.
UserDict(user_id, name, email, now) ==
    [type |-> "dict", id |-> user_id, name |-> name, email |-> email,
     created_at |-> now]

RepoCreateUser_SaveFirst(db, user_id, name, email, now) ==
    LET user == UserDict(user_id, name, email, now)
        s == DbSave(db, UserKey(user_id), user)
    IN  IF s.err # NoError
        THEN [err |-> s.err, ret |-> None, db |-> s.db,
              saves |-> << <<UserKey(user_id), user>> >>]
        ELSE IF ~validate_email(email)
             THEN [err |-> ValueError, ret |-> None, db |-> s.db,
                   saves |-> << <<UserKey(user_id), user>> >>]
             ELSE [err |-> NoError, ret |-> user, db |-> s.db,
                   saves |-> << <<UserKey(user_id), user>> >>]

\* create_user; now is the value datetime.now() reports.  The result also
\* carries the Database.save calls made, as a sequence of <<key, value>>.
RepoCreateUser(db, user_id, name, email, now) ==
    IF ~validate_email(email)
    THEN [err |-> ValueError, ret |-> None, db |-> db, saves |-> <<>>]
    ELSE LET user == UserDict(user_id, name, email, now)
             s == DbSave(db, UserKey(user_id), user)
         IN  IF s.err # NoError
             THEN [err |-> s.err, ret |-> None, db |-> s.db,
                   saves |-> << <<UserKey(user_id), user>> >>]
             ELSE [err |-> NoError, ret |-> user, db |-> s.db,
                   saves |-> << <<UserKey(user_id), user>> >>]

RepoGetUser_RawKey(db, user_id) == DbGet(db, user_id)

RepoGetUser(db, user_id) == DbGet(db, UserKey(user_id))

\* ------------------------------------------------------------------------
\* WeatherService, NotificationService, OrderProcessor
\* ------------------------------------------------------------------------

\* WeatherService.__init__: self.base_url
base_url == "https://api.weather.com"

\* is_good_weather: temp > 20
GoodWeatherAbove == 20

\* Response.raise_for_status(): raises HTTPError for a 4xx or 5xx status.
RaiseForStatus(status) ==
    IF 400 <= status /\ status < 600 THEN HTTPError ELSE NoError

\* The requests.get call of get_temperature.
Request(api_key, city) ==
    [url |-> base_url \o "/current", params |-> [city |-> city, key |-> api_key]]

GetTemperature_NoStatusCheck(api_key, city, reply) ==
    IF reply.kind = "raise"
    THEN [err |-> RequestException, ret |-> None,
          requests |-> <<Request(api_key, city)>>]
    ELSE [err |-> NoError, ret |-> Float(reply.temperature),
          requests |-> <<Request(api_key, city)>>]

\* get_temperature; reply is what the request meets.  The result carries
\* the requests issued.
GetTemperature(api_key, city, reply) ==
    IF reply.kind = "raise"
    THEN [err |-> RequestException, ret |-> None,
          requests |-> <<Request(api_key, city)>>]
    ELSE IF RaiseForStatus(reply.status) # NoError
         THEN [err |-> RaiseForStatus(reply.status), ret |-> None,
               requests |-> <<Request(api_key, city)>>]
         ELSE [err |-> NoError, ret |-> Float(reply.temperature),
               requests |-> <<Request(api_key, city)>>]

IsGoodWeather(api_key, city, reply) ==
    LET t == GetTemperature(api_key, city, reply)
    IN  IF t.err # NoError
        THEN [err |-> t.err, ret |-> None, requests |-> t.requests]
        ELSE [err |-> NoError, ret |-> Bool(t.ret.value > GoodWeatherAbove),
              requests |-> t.requests]

\* send_email of the injected notification service: the real one prints and
\* returns True, the test double returns False.
SendEmail(service, to, subject, body) ==
    IF service = "NotificationService" THEN Bool(TRUE) ELSE Bool(FALSE)

\* Entries of the log of collaborator calls made by process_order.
WeatherCall(city, r) ==
    [fn |-> "is_good_weather", city |-> city, err |-> r.err, ret |-> r.ret]

EmailCall(to, subject, body, r) ==
    [fn |-> "send_email", to |-> to, subject |-> subject, body |-> body,
     err |-> NoError, ret |-> r]

\* The dict process_order returns.
OrderResult(order_id, sent, is_good) ==
    [type |-> "dict", order_id |-> order_id, notification_sent |-> sent,
     weather_checked |-> Bool(TRUE), is_good_weather |-> is_good]

ProcessOrder_AlwaysNice(api_key, service, order_id, customer_email, city, reply) ==
    LET g == IsGoodWeather(api_key, city, reply)
    IN  IF g.err # NoError
        THEN [err |-> g.err, ret |-> None, calls |-> <<WeatherCall(city, g)>>]
        ELSE LET message == "Order " \o order_id \o " confirmed!"
                                \o " Enjoy the nice weather!"
                 sent == SendEmail(service, customer_email,
                                   "Order Confirmation", message)
             IN  [err |-> NoError,
                  ret |-> OrderResult(order_id, sent, g.ret),
                  calls |-> <<WeatherCall(city, g),
                              EmailCall(customer_email, "Order Confirmation",
                                        message, sent)>>]

ProcessOrder_AssumeBadWeather(api_key, service, order_id, customer_email, city, reply) ==
    LET g == IsGoodWeather(api_key, city, reply)
        is_good == IF g.err # NoError THEN Bool(FALSE) ELSE g.ret
        message == IF is_good.value
                   THEN "Order " \o order_id \o " confirmed!"
                            \o " Enjoy the nice weather!"
                   ELSE "Order " \o order_id \o " confirmed!"
        sent == SendEmail(service, customer_email, "Order Confirmation", message)
    IN  [err |-> NoError,
         ret |-> OrderResult(order_id, sent, is_good),
         calls |-> <<WeatherCall(city, g),
                     EmailCall(customer_email, "Order Confirmation",
                               message, sent)>>]

ProcessOrder_RetryEmail(api_key, service, order_id, customer_email, city, reply) ==
    LET g == IsGoodWeather(api_key, city, reply)
    IN  IF g.err # NoError
        THEN [err |-> g.err, ret |-> None, calls |-> <<WeatherCall(city, g)>>]
        ELSE LET message == IF g.ret.value
                            THEN "Order " \o order_id \o " confirmed!"
                                     \o " Enjoy the nice weather!"
                            ELSE "Order " \o order_id \o " confirmed!"
                 sent == SendEmail(service, customer_email,
                                   "Order Confirmation", message)
                 first == <<WeatherCall(city, g),
                            EmailCall(customer_email, "Order Confirmation",
                                      message, sent)>>
             IN  [err |-> NoError,
                  ret |-> OrderResult(order_id, sent, g.ret),
                  calls |-> IF sent.value
                            THEN first
                            ELSE first \o <<EmailCall(customer_email,
                                                      "Order Confirmation",
                                                      message, sent)>>]

\* process_order; the result carries the log of collaborator calls.
ProcessOrder(api_key, service, order_id, customer_email, city, reply) ==
    LET g == IsGoodWeather(api_key, city, reply)
    IN  IF g.err # NoError
        THEN [err |-> g.err, ret |-> None, calls |-> <<WeatherCall(city, g)>>]
        ELSE LET message == IF g.ret.value
                            THEN "Order " \o order_id \o " confirmed!"
                                     \o " Enjoy the nice weather!"
                            ELSE "Order " \o order_id \o " confirmed!"
                 sent == SendEmail(service, customer_email,
                                   "Order Confirmation", message)
             IN  [err |-> NoError,
                  ret |-> OrderResult(order_id, sent, g.ret),
                  calls |-> <<WeatherCall(city, g),
                              EmailCall(customer_email, "Order Confirmation",
                                        message, sent)>>]

\* ------------------------------------------------------------------------
\* State
\* ------------------------------------------------------------------------

VARIABLES
    data,        \* Database.data
    connected,   \* Database.connected
    last,        \* the most recent call: operation, arguments, outcome
    lastSaved,   \* history: key -> value of the most recent successful save
    created,     \* history: user id -> record returned by the most recent
                 \*          successful create_user (None if there was none)
    direct,      \* history: keys last written by a direct Database.save
    api_key,     \* WeatherService.api_key
    notification_service,   \* OrderProcessor.notification_service
    svcLast,     \* the most recent WeatherService / OrderProcessor call
    fnLast       \* the most recent call of a free function

dbVars == <<data, connected, last, lastSaved, created, direct>>

svcVars == <<api_key, notification_service, svcLast, fnLast>>

vars == <<data, connected, last, lastSaved, created, direct,
          api_key, notification_service, svcLast, fnLast>>

db == [data |-> data, connected |-> connected]

NoCall == [op |-> "none"]

\* History bookkeeping: h with key k bound to v.
Remember(h, k, v) == (k :> v) @@ h

\* A fresh, empty, disconnected Database with nothing recorded.
InitDatabase ==
    /\ data = NewDatabase.data
    /\ connected = NewDatabase.connected
    /\ last = NoCall
    /\ lastSaved = <<>>
    /\ created = [u \in UserIds |-> None]
    /\ direct = {}

\* WeatherService() and OrderProcessor(weather, NotificationService()).
Init ==
    /\ InitDatabase
    /\ api_key = "demo"
    /\ notification_service = "NotificationService"
    /\ svcLast = NoCall
    /\ fnLast = NoCall

\* WeatherService(api_key=k) and OrderProcessor(weather, n) for the keys and
\* notification collaborators callers construct them with.
InitServices ==
    /\ InitDatabase
    /\ api_key \in ApiKeys
    /\ notification_service \in NotificationServices
    /\ svcLast = NoCall
    /\ fnLast = NoCall

connect ==
    LET r == DbConnect(db)
    IN  /\ data' = r.db.data
        /\ connected' = r.db.connected
        /\ last' = [op |-> "connect", was |-> connected, err |-> r.err, ret |-> r.ret]
        /\ UNCHANGED <<lastSaved, created, direct, svcVars>>

disconnect ==
    LET r == DbDisconnect(db)
    IN  /\ data' = r.db.data
        /\ connected' = r.db.connected
        /\ last' = [op |-> "disconnect", was |-> connected, err |-> r.err, ret |-> r.ret]
        /\ UNCHANGED <<lastSaved, created, direct, svcVars>>

save ==
    \E key \in Keys, value \in Values :
        LET r == DbSave(db, key, value)
        IN  /\ data' = r.db.data
            /\ connected' = r.db.connected
            /\ last' = [op |-> "save", key |-> key, value |-> value,
                        was |-> connected, err |-> r.err, ret |-> r.ret]
            /\ lastSaved' = IF r.err = NoError
                            THEN Remember(lastSaved, key, value)
                            ELSE lastSaved
            /\ direct' = IF r.err = NoError THEN direct \cup {key} ELSE direct
            /\ UNCHANGED <<created, svcVars>>

get ==
    \E key \in Keys \cup {UserKey(u) : u \in UserIds} :
        LET r == DbGet(db, key)
        IN  /\ data' = r.db.data
            /\ connected' = r.db.connected
            /\ last' = [op |-> "get", key |-> key,
                        was |-> connected, err |-> r.err, ret |-> r.ret]
            /\ UNCHANGED <<lastSaved, created, direct, svcVars>>

create_user ==
    \E user_id \in UserIds, person \in People, now \in Timestamps :
        LET name == person[1]
            email == person[2]
            r == RepoCreateUser(db, user_id, name, email, now)
        IN  /\ data' = r.db.data
            /\ connected' = r.db.connected
            /\ last' = [op |-> "create_user", id |-> user_id, name |-> name,
                        email |-> email, was |-> connected,
                        err |-> r.err, ret |-> r.ret, saves |-> r.saves]
            /\ lastSaved' = IF r.err = NoError
                            THEN Remember(lastSaved, UserKey(user_id), r.ret)
                            ELSE lastSaved
            /\ created' = IF r.err = NoError
                          THEN [created EXCEPT ![user_id] = r.ret]
                          ELSE created
            /\ direct' = IF r.err = NoError
                         THEN direct \ {UserKey(user_id)}
                         ELSE direct
            /\ UNCHANGED svcVars

get_user ==
    \E user_id \in UserIds :
        LET r == RepoGetUser(db, user_id)
        IN  /\ data' = r.db.data
            /\ connected' = r.db.connected
            /\ last' = [op |-> "get_user", id |-> user_id,
                        was |-> connected, err |-> r.err, ret |-> r.ret]
            /\ UNCHANGED <<lastSaved, created, direct, svcVars>>

Next ==
    \/ connect
    \/ disconnect
    \/ save
    \/ get
    \/ create_user
    \/ get_user

Spec == Init /\ [][Next]_vars

get_temperature ==
    \E city \in Cities, reply \in Replies :
        LET r == GetTemperature(api_key, city, reply)
        IN  /\ svcLast' = [op |-> "get_temperature", city |-> city,
                           reply |-> reply, err |-> r.err, ret |-> r.ret,
                           requests |-> r.requests]
            /\ UNCHANGED <<dbVars, api_key, notification_service, fnLast>>

is_good_weather ==
    \E city \in Cities, reply \in Replies :
        LET r == IsGoodWeather(api_key, city, reply)
        IN  /\ svcLast' = [op |-> "is_good_weather", city |-> city,
                           reply |-> reply, err |-> r.err, ret |-> r.ret,
                           requests |-> r.requests]
            /\ UNCHANGED <<dbVars, api_key, notification_service, fnLast>>

send_email ==
    \E to \in CustomerEmails :
        LET r == SendEmail(notification_service, to, "Order Confirmation", "hello")
        IN  /\ svcLast' = [op |-> "send_email", to |-> to, err |-> NoError,
                           ret |-> r]
            /\ UNCHANGED <<dbVars, api_key, notification_service, fnLast>>

process_order ==
    \E order_id \in OrderIds, customer_email \in CustomerEmails,
       city \in Cities, reply \in Replies :
        LET r == ProcessOrder(api_key, notification_service, order_id,
                              customer_email, city, reply)
        IN  /\ svcLast' = [op |-> "process_order", order_id |-> order_id,
                           customer_email |-> customer_email, city |-> city,
                           reply |-> reply, err |-> r.err, ret |-> r.ret,
                           calls |-> r.calls]
            /\ UNCHANGED <<dbVars, api_key, notification_service, fnLast>>

NextServices ==
    \/ get_temperature
    \/ is_good_weather
    \/ send_email
    \/ process_order

SpecOrder == InitServices /\ [][NextServices]_vars

validate_email_call ==
    \E email \in EmailStrings :
        /\ fnLast' = [op |-> "validate_email", email |-> email,
                      err |-> NoError, ret |-> Bool(validate_email(email))]
        /\ UNCHANGED <<dbVars, api_key, notification_service, svcLast>>

calculate_total_price ==
    \E price \in Prices, quantity \in Quantities, discount_percent \in Discounts :
        LET r == CalculateTotalPrice(price, quantity, discount_percent)
        IN  /\ fnLast' = [op |-> "calculate_total_price", price |-> price,
                          quantity |-> quantity,
                          discount_percent |-> discount_percent,
                          err |-> r.err, ret |-> r.ret]
            /\ UNCHANGED <<dbVars, api_key, notification_service, svcLast>>

\* Callers of the free functions.
NextFunctions ==
    \/ validate_email_call
    \/ calculate_total_price

SpecFunctions == Init /\ [][NextFunctions]_vars

\* Callers that reach the Database only through the UserRepository (and
\* connect / disconnect it).
NextRepo ==
    \/ connect
    \/ disconnect
    \/ create_user
    \/ get_user

SpecRepo == Init /\ [][NextRepo]_vars

\* ------------------------------------------------------------------------
\* Properties
\* ------------------------------------------------------------------------

\* What get_user(user_id) returns when the Database is connected.
Stored(user_id) == RepoGetUser([data |-> data, connected |-> TRUE], user_id).ret

\* C1: a save, get or get_user call made while disconnected fails with the
\* Database's ConnectionError, and so does create_user with a valid e-mail;
\* a save, get or get_user call made while connected does not fail.
C1_NotConnectedGate ==
    /\ last.op \in {"save", "get", "get_user"} =>
           IF last.was THEN last.err = NoError ELSE last.err = ConnectionError
    /\ (last.op = "create_user" /\ validate_email(last.email) /\ ~last.was) =>
           last.err = ConnectionError

C1_Witness ==
    /\ last.op = "create_user"
    /\ ~last.was
    /\ last.err = ConnectionError
    /\ data # <<>>

\* C2: connect and disconnect leave the stored mapping unchanged, and in
\* every connected state, however many disconnect/connect calls came before,
\* get(k) returns the value of the most recent successful save to k.
C2_StoreSurvivesDisconnect ==
    /\ [][last'.op \in {"connect", "disconnect"} => data' = data]_vars
    /\ [](connected => \A k \in DOMAIN lastSaved : DbGet(db, k).ret = lastSaved[k])

C2_Witness ==
    /\ last.op = "connect"
    /\ ~last.was
    /\ data # <<>>

\* C3: a get made while connected returns the value of the most recent
\* successful save under that key, and None for a key never saved.
C3_GetReturnsLastSave ==
    (last.op = "get" /\ last.was) =>
        /\ last.err = NoError
        /\ last.ret = IF last.key \in DOMAIN lastSaved
                      THEN lastSaved[last.key]
                      ELSE None

C3_Witness ==
    /\ last.op = "get"
    /\ last.key = "user:1"
    /\ last.ret = Str("v1")
    /\ created["1"] # None

\* C4 as stated: once create_user has stored a record for an id, no step
\* of the repository or of connect/disconnect changes what get_user(id)
\* returns.
C4_Original ==
    [][\A u \in UserIds : created[u] # None => Stored(u)' = Stored(u)]_vars

\* C4 amended: once create_user has stored a record for an id, only a later
\* successful create_user for the same id changes what get_user(id) returns.
C4_OnlyRecreateReplaces ==
    [][\A u \in UserIds :
          (/\ created[u] # None
           /\ ~(last'.op = "create_user" /\ last'.id = u /\ last'.err = NoError))
          => Stored(u)' = Stored(u)]_vars

C4_Witness ==
    /\ last.op = "get_user"
    /\ last.id = "1"
    /\ last.err = NoError
    /\ last.ret # None
    /\ last.ret = created["1"]
    /\ created["2"] # None

\* C5: create_user with an e-mail that validate_email rejects fails with
\* ValueError, calls Database.save not at all and leaves the mapping
\* unchanged, connected or not.
C5_InvalidEmailBeforeStorage ==
    /\ []((last.op = "create_user" /\ ~validate_email(last.email)) =>
             (last.err = ValueError /\ last.saves = <<>>))
    /\ [][(last'.op = "create_user" /\ ~validate_email(last'.email)) =>
             data' = data]_vars

C5_Witness ==
    /\ last.op = "create_user"
    /\ last.err = ValueError
    /\ ~last.was
    /\ data # <<>>

\* C6 as stated: while connected, get_user(id) returns None if no
\* create_user for id has succeeded and otherwise the record the most recent
\* successful create_user(id, name, email) returned, which carries that id,
\* name and e-mail, a non-null created_at, and is stored under "user:" + id.
C6_Original ==
    /\ (last.op = "get_user" /\ last.was) => last.ret = created[last.id]
    /\ (last.op = "create_user" /\ last.err = NoError) =>
           /\ last.ret.id = last.id
           /\ last.ret.name = last.name
           /\ last.ret.email = last.email
           /\ last.ret.created_at \in Timestamps
           /\ UserKey(last.id) \in DOMAIN data
           /\ data[UserKey(last.id)] = last.ret

\* C6 amended: the same, for every id whose key "user:" + id was not last
\* written by a direct Database.save.
C6_GetUserReturnsCreated ==
    /\ (last.op = "get_user" /\ last.was /\ UserKey(last.id) \notin direct) =>
           last.ret = created[last.id]
    /\ (last.op = "create_user" /\ last.err = NoError) =>
           /\ last.ret.id = last.id
           /\ last.ret.name = last.name
           /\ last.ret.email = last.email
           /\ last.ret.created_at \in Timestamps
           /\ UserKey(last.id) \in DOMAIN data
           /\ data[UserKey(last.id)] = last.ret

C6_Witness ==
    /\ last.op = "get_user"
    /\ last.was
    /\ last.ret # None
    /\ last.ret = created[last.id]
    /\ last.ret.name = "Bob"

\* The send_email entries of the call log of the last process_order.
EmailCalls == SelectSeq(svcLast.calls, LAMBDA c : c.fn = "send_email")

\* C7: when process_order completes, the body passed to send_email is
\* "Order {order_id} confirmed!" followed by " Enjoy the nice weather!"
\* exactly when is_good_weather returned true, and the result has the
\* caller's order_id, the value is_good_weather returned and
\* weather_checked true.
C7_MessageAndResult ==
    (svcLast.op = "process_order" /\ svcLast.err = NoError) =>
        LET good == svcLast.calls[1].ret
            plain == "Order " \o svcLast.order_id \o " confirmed!"
        IN  /\ svcLast.calls[1].fn = "is_good_weather"
            /\ svcLast.calls[1].city = svcLast.city
            /\ good \in {Bool(TRUE), Bool(FALSE)}
            /\ \A i \in 1..Len(EmailCalls) :
                  EmailCalls[i].body =
                      IF good = Bool(TRUE)
                      THEN plain \o " Enjoy the nice weather!"
                      ELSE plain
            /\ svcLast.ret.order_id = svcLast.order_id
            /\ svcLast.ret.is_good_weather = good
            /\ svcLast.ret.weather_checked = Bool(TRUE)

C7_Witness ==
    /\ svcLast.op = "process_order"
    /\ svcLast.err = NoError
    /\ svcLast.order_id = "ORD-002"
    /\ svcLast.ret.is_good_weather = Bool(TRUE)
    /\ Len(EmailCalls) = 1
    /\ EmailCalls[1].body = "Order ORD-002 confirmed! Enjoy the nice weather!"

\* C8: process_order calls is_good_weather first; when that call fails,
\* process_order fails with the same error, returns nothing and makes no
\* send_email call.
C8_WeatherFailurePropagates ==
    svcLast.op = "process_order" =>
        /\ Len(svcLast.calls) >= 1
        /\ svcLast.calls[1].fn = "is_good_weather"
        /\ svcLast.calls[1].err # NoError =>
              /\ svcLast.calls[1].err \in {RequestException, HTTPError}
              /\ svcLast.err = svcLast.calls[1].err
              /\ svcLast.ret = None
              /\ Len(EmailCalls) = 0

C8_Witness ==
    /\ svcLast.op = "process_order"
    /\ svcLast.reply.kind = "response"
    /\ svcLast.err = HTTPError
    /\ Len(svcLast.calls) = 1

\* C9: when the weather check succeeds, process_order calls send_email
\* exactly once, with (customer_email, "Order Confirmation", message),
\* raises nothing and returns a complete result whose notification_sent is
\* what send_email returned, also when that is false.
C9_NotificationReportedNotRaised ==
    (svcLast.op = "process_order" /\ svcLast.calls[1].err = NoError) =>
        /\ Len(EmailCalls) = 1
        /\ EmailCalls[1].to = svcLast.customer_email
        /\ EmailCalls[1].subject = "Order Confirmation"
        /\ svcLast.err = NoError
        /\ DOMAIN svcLast.ret =
              {"type", "order_id", "notification_sent", "weather_checked",
               "is_good_weather"}
        /\ svcLast.ret.notification_sent = EmailCalls[1].ret

C9_Witness ==
    /\ svcLast.op = "process_order"
    /\ svcLast.err = NoError
    /\ Len(EmailCalls) = 1
    /\ EmailCalls[1].ret = Bool(FALSE)
    /\ svcLast.ret.notification_sent = Bool(FALSE)

Positions(s, c) == {i \in 1..Len(s) : s[i] = c}

\* C11: validate_email(email) is true exactly when email is non-empty, has
\* exactly one '@', something before it and something after it, and a '.'
\* somewhere after it.
C11_ValidateEmailIff ==
    fnLast.op = "validate_email" =>
        LET e == fnLast.email
            ats == Positions(e, "@")
        IN  fnLast.ret =
                Bool(/\ Len(e) > 0
                     /\ Cardinality(ats) = 1
                     /\ \A p \in ats :
                           /\ p > 1
                           /\ p < Len(e)
                           /\ \E j \in Positions(e, ".") : j > p)

C11_Witness ==
    /\ fnLast.op = "validate_email"
    /\ fnLast.email = <<"a", "@", ".", "a">>
    /\ fnLast.ret = Bool(TRUE)

\* C12: calculate_total_price fails with ValueError exactly when price < 0,
\* quantity < 0 or discount_percent is outside [0, 100]; otherwise it returns
\* price * quantity * (1 - discount_percent / 100) (here in 1/100 cent, that is
\* price * quantity * (100 - discount_percent)), which is non-negative and
\* does not grow when the discount grows.
C12_TotalPrice ==
    fnLast.op = "calculate_total_price" =>
        LET p == fnLast.price
            q == fnLast.quantity
            d == fnLast.discount_percent
            bad == p < 0 \/ q < 0 \/ d < 0 \/ d > 100
        IN  /\ bad <=> fnLast.err = ValueError
            /\ ~bad =>
                  /\ fnLast.err = NoError
                  /\ fnLast.ret = Float(p * q * (100 - d))
                  /\ fnLast.ret.value >= 0
                  /\ \A d2 \in Discounts :
                        (d <= d2 /\ d2 <= 100) =>
                            LET r2 == CalculateTotalPrice(p, q, d2)
                            IN  /\ r2.err = NoError
                                /\ r2.ret.value <= fnLast.ret.value

C12_Witness ==
    /\ fnLast.op = "calculate_total_price"
    /\ fnLast.price = 2
    /\ fnLast.quantity = 3
    /\ fnLast.discount_percent = 25
    /\ fnLast.ret = Float(450)

\* Every key other than k keeps its presence and its value over the step,
\* k is present afterwards and the connected flag is unchanged.
OnlyEntryChanges(k) ==
    /\ DOMAIN data' = (DOMAIN data) \cup {k}
    /\ \A j \in (DOMAIN data) \ {k} : data'[j] = data[j]
    /\ connected' = connected

\* C13: get, get_user, connect, disconnect and every failing save or
\* create_user leave the mapping unchanged; a successful save(k, v) changes
\* only the entry for k, a successful create_user(id, ., .) only the entry
\* for "user:" + id, and neither changes the connected flag.
C13_OnlySaveChangesMapping ==
    [][/\ (\/ last'.op \in {"get", "get_user", "connect", "disconnect"}
           \/ (last'.op \in {"save", "create_user"} /\ last'.err # NoError))
          => data' = data
       /\ (last'.op = "save" /\ last'.err = NoError)
          => (OnlyEntryChanges(last'.key) /\ data'[last'.key] = last'.value)
       /\ (last'.op = "create_user" /\ last'.err = NoError)
          => (OnlyEntryChanges(UserKey(last'.id))
              /\ data'[UserKey(last'.id)] = last'.ret)]_vars

C13_Witness ==
    /\ last.op = "create_user"
    /\ last.err = NoError
    /\ last.id = "2"
    /\ DOMAIN data = {"k1", "user:1", "user:2"}
    /\ data["k1"] = Str("v1")
    /\ data["user:1"] = created["1"]

====
